---- MODULE Spec2Model ----
(***************************************************************************)
(* link-base: sign-up / sign-in / refresh-token sessions and referral      *)
(* codes.  The relational tables (schema.sql), the redis cache and the     *)
(* wall clock are the shared state; every HTTP request is a process whose  *)
(* steps are the store/cache accesses of the service method it runs.       *)
(* Finished requests stay in req with their inputs and results; at is the  *)
(* time of the store lookup that opens RefreshTokens and CreateCode.       *)
(* Failures are injected, at most MaxFaults per behaviour, into the store  *)
(* writes, the commit, the token issuers and the cache write; the lookups  *)
(* (FindByEmail, FindByRefreshToken, FindCodeByUserID, the cache GET)      *)
(* answer from the current contents.                                       *)
(***************************************************************************)
EXTENDS Integers, FiniteSets, Sequences, TLC

\* ---- bounds -------------------------------------------------------------
MaxReqs == 2          \* requests issued in one behaviour
MaxInFlight == 2      \* requests running concurrently
MaxTime == 2          \* clock ticks
MaxFaults == 1        \* injected store/cache/issuer failures
MaxEmails == 3
MaxPasswords == 2
MaxTTL == 2           \* largest ttl a caller passes to CreateCode
RefreshTokenTTL == 2  \* cfg.RefreshTokenTTL
AccessTokenTTL == 1   \* cfg.AccessTokenTTL

\* requests -2..0 are those that may precede the run
Reqs == (-2)..MaxReqs
Emails == 1..MaxEmails
Passwords == 1..MaxPasswords
TTLs == {0, MaxTTL}
Times == 0..MaxTime

Nil == 0              \* uuid.Nil
NoCode == 0           \* the empty referral code ""
NoExpiry == -1        \* a redis key without expiration

\* ---- state --------------------------------------------------------------
VARIABLES users, referral, refresh_token, referral_code, redis,
          now, nextId, nextTok, faults, nreq, req

vars == <<users, referral, refresh_token, referral_code, redis,
          now, nextId, nextTok, faults, nreq, req>>

\* ---- pure helpers -------------------------------------------------------
\* hash.SHA1Hasher.Hash: salted digest, deterministic in the password
Hash(password) == <<"sha1", "lolkek", password>>

\* auth.Manager.NewJWT: signed claims (subject, expiry)
NewJWT(subject, ttl) == <<"jwt", subject, now + ttl>>

\* auth.Manager.Parse: the subject of a signed token whose expiry is ahead
VerifyAccessToken(token) ==
    IF Len(token) # 3 \/ token[1] # "jwt"
      THEN [subject |-> <<>>, err |-> "invalid"]
      ELSE IF now < token[3] THEN [subject |-> token[2], err |-> ""]
           ELSE [subject |-> <<>>, err |-> "expired"]

\* uuid.UUID.String / uuid.Parse
UuidString(id) == <<"uuid", id>>
UuidParse(s) == s[2]

NoTokens == [AccessToken |-> <<>>, RefreshToken |-> 0]

\* a request that has not been issued yet
NoReq == [op |-> "none", pc |-> "idle", at |-> 0,
          email |-> 0, password |-> 0, code |-> NoCode, ttl |-> 0,
          userId |-> Nil, referralId |-> Nil, passwordHash |-> <<>>,
          newId |-> Nil, tx |-> "none", txUsers |-> {}, txReferral |-> {},
          releases |-> 0, err |-> "", tok |-> 0, expiresAt |-> 0,
          cachedAt |-> 0, fault |-> FALSE, ret |-> "", tokens |-> NoTokens,
          out |-> NoCode, found |-> {}]

Done(r) == req[r].pc = "done"
InFlight == {r \in Reqs : req[r].pc \notin {"idle", "done"}}

\* a request enters the service: requests are numbered in arrival order
CanStart(r) == /\ r = nreq + 1
               /\ r <= MaxReqs
               /\ Cardinality(InFlight) < MaxInFlight

Arrive(r, op) == [NoReq EXCEPT !.op = op]

CanFault == faults < MaxFaults

UserIds(tbl) == {u.user_id : u \in tbl}

\* ---- store and cache operations ----------------------------------------
\* variant: the query filters on the wrong column and matches no row
FindByEmail_none(email) == {u \in users : FALSE}

\* UserPostgres.FindByEmail: SELECT ... WHERE email = $1 LIMIT 1
FindByEmail(email) == {u \in users : u.email = email}

\* variant: no unique index on email, the insert always adds the row
UserCreate_noConflict(email, row) == {row}

\* variant: ON CONFLICT (email) DO UPDATE, the row of the email takes the new
\* password hash
UserCreate_upsert(email, row) ==
    IF \E u \in users : u.email = email
      THEN {[row EXCEPT !.user_id = (CHOOSE u \in users : u.email = email).user_id]}
      ELSE {row}

\* UserPostgres.Create: INSERT ... ON CONFLICT (email) DO NOTHING
\* rows the statement adds to the transaction's write set
UserCreate(email, row) ==
    IF \E u \in users : u.email = email THEN {} ELSE {row}

\* variant: the unique index on users.email is not consulted for rows of
\* open transactions, so the insert never waits
UserCreateBlocked_never(r, email) == FALSE

\* the insert waits while another open transaction holds an uncommitted
\* row with the same unique email
UserCreateBlocked(r, email) ==
    \E q \in Reqs \ {r} : /\ req[q].tx = "open"
                          /\ \E u \in req[q].txUsers : u.email = email

\* variant: the referral table declares no foreign keys
ReferralFKOk_none(visibleUsers, row) == TRUE

\* ReferralPostgres.CreateReferral: INSERT ... ON CONFLICT (user_id) DO NOTHING
\* the foreign keys of schema.sql are checked against the rows the
\* transaction sees
ReferralFKOk(visibleUsers, row) ==
    /\ row.user_id \in UserIds(visibleUsers)
    /\ row.referred_by_user_id \in UserIds(visibleUsers)

\* variant: the two columns are bound in the wrong order
CreateReferral_swapped(row) ==
    {[user_id |-> row.referred_by_user_id, referred_by_user_id |-> row.user_id]}

CreateReferral(row) ==
    IF \E e \in referral : e.user_id = row.user_id THEN {} ELSE {row}

\* variant: rotate-and-revoke, the new token replaces the user's other rows
RefreshTokenCreate_rotate(tbl, row) ==
    {x \in tbl : x.user_id # row.user_id} \cup {row}

\* variant: the conflict target is user_id alone and the action DO NOTHING
RefreshTokenCreate_perUser(tbl, row) ==
    IF \E x \in tbl : x.user_id = row.user_id THEN tbl ELSE tbl \cup {row}

\* variant: the conflict target is user_id alone, so the upsert also moves
\* the expiry of the user's other rows
RefreshTokenCreate_touch(tbl, row) ==
    {[x EXCEPT !.expires_at = IF x.user_id = row.user_id
                                THEN row.expires_at ELSE @] : x \in tbl}
        \cup {row}

\* RefreshTokenPostgres.Create: upsert on (user_id, refresh_token)
RefreshTokenCreate(tbl, row) ==
    {x \in tbl : ~(x.user_id = row.user_id /\ x.refresh_token = row.refresh_token)}
        \cup {row}

\* variant: the expires_at > NOW() condition is missing
FindByRefreshToken_noExpiry(token) ==
    {x \in refresh_token : x.refresh_token = token}

\* RefreshTokenPostgres.FindByRefreshToken: ... AND expires_at > NOW() LIMIT 1
FindByRefreshToken(token) ==
    {x \in refresh_token : x.refresh_token = token /\ x.expires_at > now}

\* variant: the expires_at > NOW() condition is missing
FindCodeByUserID_any(id) == {x \in referral_code : x.user_id = id}

\* ReferralPostgres.FindCodeByUserID: ... AND expires_at > NOW()
FindCodeByUserID(id) ==
    {x \in referral_code : x.user_id = id /\ x.expires_at > now}

\* ReferralPostgres.CreateReferralCode: upsert on (user_id, code)
CreateReferralCode(tbl, row) ==
    {x \in tbl : ~(x.user_id = row.user_id /\ x.code = row.code)} \cup {row}

\* variant: the query selects on the wrong column and returns the referrer
\* of the user
FindReferralByUserID_referrer(id) ==
    {e.referred_by_user_id : e \in {x \in referral : x.user_id = id}}

\* ReferralPostgres.FindReferralByUserID
FindReferralByUserID(id) ==
    {e.user_id : e \in {x \in referral : x.referred_by_user_id = id}}

\* variant: the ttl is passed in the wrong unit and the key expires early
RedisCreate_short(cache, code, userId, ttl) ==
    {e \in cache : e.key # code}
        \cup {[key |-> code, value |-> UuidString(userId),
               exp |-> IF ttl > 0 THEN now + ttl - 1 ELSE NoExpiry]}

\* ReferralRedis.Create: SET code userId with the ttl; go-redis sends an
\* expiration only when the duration is positive
RedisCreate(cache, code, userId, ttl) ==
    {e \in cache : e.key # code}
        \cup {[key |-> code, value |-> UuidString(userId),
               exp |-> IF ttl > 0 THEN now + ttl ELSE NoExpiry]}

\* ReferralRedis.FindByReferralCode: GET code, then uuid.Parse
RedisLive(e, t) == e.exp = NoExpiry \/ t < e.exp
CacheHit(code) == \E e \in redis : e.key = code /\ RedisLive(e, now)
FindByReferralCode(code) ==
    UuidParse((CHOOSE e \in redis : e.key = code /\ RedisLive(e, now)).value)

\* ---- initial state -----------------------------------------------------
\* the service starts on an empty database and cache
InitEmpty ==
    /\ users = {}
    /\ referral = {}
    /\ refresh_token = {}
    /\ nextId = 1
    /\ nextTok = 1
    /\ req = [r \in Reqs |-> NoReq]

\* or the run begins after one SignUp(email 1, password 1, no referral code)
\* has returned its tokens at time 0: request 0 with its user row and its
\* refresh-token row
SeedUser == [user_id |-> 1, email |-> 1, password_hash |-> Hash(1)]
SeedToken == [user_id |-> 1, refresh_token |-> 1, expires_at |-> RefreshTokenTTL]
SeedReq == [NoReq EXCEPT !.op = "SignUp", !.pc = "done",
                         !.email = 1, !.password = 1,
                         !.passwordHash = Hash(1), !.newId = 1,
                         !.tx = "committed", !.releases = 2, !.err = "tx_done",
                         !.tok = 1, !.expiresAt = RefreshTokenTTL,
                         !.tokens = [AccessToken |-> <<"jwt", UuidString(1), AccessTokenTTL>>,
                                     RefreshToken |-> 1]]
InitSignedUp ==
    /\ users = {SeedUser}
    /\ referral = {}
    /\ refresh_token = {SeedToken}
    /\ nextId = 2
    /\ nextTok = 2
    /\ req = [r \in Reqs |-> IF r = 0 THEN SeedReq ELSE NoReq]

\* or the run begins after that sign-up, a CreateCode(user 1, ttl MaxTTL)
\* that returned its code, and a SignUp(email 2, password 2, that code) that
\* returned its tokens, all at time 0: requests -2, -1 and 0
SeedCode == [user_id |-> 1, code |-> 2, expires_at |-> MaxTTL]
SeedCodeReq == [NoReq EXCEPT !.op = "CreateCode", !.pc = "done",
                             !.userId = 1, !.ttl = MaxTTL, !.tok = 2,
                             !.expiresAt = MaxTTL, !.out = 2]
SeedReferred == [user_id |-> 2, email |-> 2, password_hash |-> Hash(2)]
SeedEdge == [user_id |-> 2, referred_by_user_id |-> 1]
SeedReferredToken == [user_id |-> 2, refresh_token |-> 3,
                      expires_at |-> RefreshTokenTTL]
SeedReferredReq ==
    [NoReq EXCEPT !.op = "SignUp", !.pc = "done",
                  !.email = 2, !.password = 2, !.code = 2, !.referralId = 1,
                  !.passwordHash = Hash(2), !.newId = 2,
                  !.tx = "committed", !.releases = 2, !.err = "tx_done",
                  !.tok = 3, !.expiresAt = RefreshTokenTTL,
                  !.tokens = [AccessToken |-> <<"jwt", UuidString(2), AccessTokenTTL>>,
                              RefreshToken |-> 3]]
InitReferred ==
    /\ users = {SeedUser, SeedReferred}
    /\ referral = {SeedEdge}
    /\ refresh_token = {SeedToken, SeedReferredToken}
    /\ referral_code = {SeedCode}
    /\ redis = {[key |-> 2, value |-> UuidString(1), exp |-> MaxTTL]}
    /\ nextId = 3
    /\ nextTok = 4
    /\ req = [r \in Reqs |-> IF r = -2 THEN SeedReq
                             ELSE IF r = -1 THEN SeedCodeReq
                             ELSE IF r = 0 THEN SeedReferredReq ELSE NoReq]

Init ==
    /\ now = 0
    /\ faults = 0
    /\ nreq = 0
    /\ \/ InitEmpty /\ referral_code = {} /\ redis = {}
       \/ InitSignedUp /\ referral_code = {} /\ redis = {}
       \/ InitReferred

\* ---- the clock ---------------------------------------------------------
\* time passes; redis drops the keys whose expiration is reached
Tick ==
    /\ now < MaxTime
    /\ now' = now + 1
    /\ redis' = {e \in redis : RedisLive(e, now + 1)}
    /\ UNCHANGED <<users, referral, refresh_token, referral_code,
                   nextId, nextTok, faults, nreq, req>>

\* a service method without deferred calls returns to its caller
Return(rq) == [rq EXCEPT !.pc = "done"]

\* createUser: the deferred function, run when createUser returns after
\* BeginTxx: Rollback when err is set and a further Commit otherwise; both
\* are no-ops on a transaction that is already finished
createUser_defer(rq) ==
    [rq EXCEPT !.pc = "done",
               !.releases = @ + 1,
               !.tx = IF rq.tx = "open" THEN "rolledback" ELSE @,
               !.txUsers = {}, !.txReferral = {},
               !.err = IF rq.err = "" THEN "tx_done" ELSE @]

\* the return of createSession's caller: createUser runs its deferred
\* function, SignIn and RefreshTokens have none
Exit(rq, deferred) == IF deferred THEN createUser_defer(rq) ELSE Return(rq)

\* ---- UserService.createSession -----------------------------------------
\* variant: the access token is issued with the refresh ttl
createSession_refreshTTL(r, userID, deferred) ==
    \/ \* NewJWT fails
       /\ CanFault
       /\ faults' = faults + 1
       /\ req' = [req EXCEPT ![r] = Exit([@ EXCEPT !.ret = "jwt_error",
                             !.fault = TRUE], deferred)]
       /\ UNCHANGED <<refresh_token, nextTok>>
    \/ \* NewRefreshToken fails
       /\ CanFault
       /\ faults' = faults + 1
       /\ req' = [req EXCEPT ![r] = Exit([@ EXCEPT !.ret = "token_error",
                             !.fault = TRUE], deferred)]
       /\ UNCHANGED <<refresh_token, nextTok>>
    \/ \* RefreshToken.Create fails in the store
       /\ CanFault
       /\ faults' = faults + 1
       /\ nextTok' = nextTok + 1
       /\ req' = [req EXCEPT ![r] = Exit([@ EXCEPT !.ret = "store_error",
                             !.tok = nextTok, !.fault = TRUE], deferred)]
       /\ UNCHANGED refresh_token
    \/ \* the insert violates refresh_token.user_id REFERENCES users
       /\ userID \notin UserIds(users)
       /\ nextTok' = nextTok + 1
       /\ req' = [req EXCEPT ![r] = Exit([@ EXCEPT !.ret = "store_error",
                             !.tok = nextTok], deferred)]
       /\ UNCHANGED <<refresh_token, faults>>
    \/ \* success
       /\ userID \in UserIds(users)
       /\ nextTok' = nextTok + 1
       /\ refresh_token' = RefreshTokenCreate(refresh_token,
              [user_id |-> userID, refresh_token |-> nextTok,
               expires_at |-> now + RefreshTokenTTL])
       /\ req' = [req EXCEPT ![r] = Exit([@ EXCEPT !.ret = "",
                             !.tok = nextTok,
                             !.expiresAt = now + RefreshTokenTTL,
                             !.tokens = [AccessToken |-> NewJWT(UuidString(userID), RefreshTokenTTL),
                                            RefreshToken |-> nextTok]], deferred)]
       /\ UNCHANGED faults

\* one step of request r at label pc: issue both tokens and store the
\* refresh token; the outcome is returned to the caller of createSession
createSession(r, userID, deferred) ==
    \/ \* NewJWT fails
       /\ CanFault
       /\ faults' = faults + 1
       /\ req' = [req EXCEPT ![r] = Exit([@ EXCEPT !.ret = "jwt_error",
                             !.fault = TRUE], deferred)]
       /\ UNCHANGED <<refresh_token, nextTok>>
    \/ \* NewRefreshToken fails
       /\ CanFault
       /\ faults' = faults + 1
       /\ req' = [req EXCEPT ![r] = Exit([@ EXCEPT !.ret = "token_error",
                             !.fault = TRUE], deferred)]
       /\ UNCHANGED <<refresh_token, nextTok>>
    \/ \* RefreshToken.Create fails in the store
       /\ CanFault
       /\ faults' = faults + 1
       /\ nextTok' = nextTok + 1
       /\ req' = [req EXCEPT ![r] = Exit([@ EXCEPT !.ret = "store_error",
                             !.tok = nextTok, !.fault = TRUE], deferred)]
       /\ UNCHANGED refresh_token
    \/ \* the insert violates refresh_token.user_id REFERENCES users
       /\ userID \notin UserIds(users)
       /\ nextTok' = nextTok + 1
       /\ req' = [req EXCEPT ![r] = Exit([@ EXCEPT !.ret = "store_error",
                             !.tok = nextTok], deferred)]
       /\ UNCHANGED <<refresh_token, faults>>
    \/ \* success
       /\ userID \in UserIds(users)
       /\ nextTok' = nextTok + 1
       /\ refresh_token' = RefreshTokenCreate(refresh_token,
              [user_id |-> userID, refresh_token |-> nextTok,
               expires_at |-> now + RefreshTokenTTL])
       /\ req' = [req EXCEPT ![r] = Exit([@ EXCEPT !.ret = "",
                             !.tok = nextTok,
                             !.expiresAt = now + RefreshTokenTTL,
                             !.tokens = [AccessToken |-> NewJWT(UuidString(userID), AccessTokenTTL),
                                            RefreshToken |-> nextTok]], deferred)]
       /\ UNCHANGED faults


\* ---- UserService.SignUp / createUser ------------------------------------
\* variant: the error of the cache lookup is dropped and the sign-up goes on
\* without a referral
SignUp_ignoreMiss(r, email, password, code) ==
    /\ CanStart(r)
    /\ nreq' = nreq + 1
    /\ LET a == [Arrive(r, "SignUp") EXCEPT !.email = email,
                     !.password = password, !.code = code]
       IN req' = [req EXCEPT ![r] = [a EXCEPT !.pc = "cu_find",
                       !.referralId = IF code # NoCode /\ CacheHit(code)
                                        THEN FindByReferralCode(code) ELSE Nil]]
    /\ UNCHANGED <<users, referral, refresh_token, referral_code, redis,
                   now, nextId, nextTok, faults>>

\* variant: on a cache miss the code is looked up in the referral_code table
SignUp_storeFallback(r, email, password, code) ==
    /\ CanStart(r)
    /\ nreq' = nreq + 1
    /\ LET a == [Arrive(r, "SignUp") EXCEPT !.email = email,
                     !.password = password, !.code = code]
           rows == {x \in referral_code : x.code = code /\ x.expires_at > now}
       IN IF code # NoCode /\ ~CacheHit(code) /\ rows = {}
            THEN req' = [req EXCEPT ![r] = [a EXCEPT !.pc = "done",
                                  !.ret = "referral_not_found"]]
            ELSE req' = [req EXCEPT ![r] = [a EXCEPT !.pc = "cu_find",
                            !.referralId =
                                IF code = NoCode THEN Nil
                                ELSE IF CacheHit(code) THEN FindByReferralCode(code)
                                ELSE (CHOOSE x \in rows : TRUE).user_id]]
    /\ UNCHANGED <<users, referral, refresh_token, referral_code, redis,
                   now, nextId, nextTok, faults>>

\* SignUp: resolve the referral code in the cache, then enter createUser
SignUp(r, email, password, code) ==
    /\ CanStart(r)
    /\ nreq' = nreq + 1
    /\ LET a == [Arrive(r, "SignUp") EXCEPT !.email = email,
                     !.password = password, !.code = code]
       IN IF code # NoCode /\ ~CacheHit(code)
            THEN req' = [req EXCEPT ![r] = [a EXCEPT !.pc = "done",
                                  !.ret = "referral_not_found"]]
            ELSE req' = [req EXCEPT ![r] = [a EXCEPT !.pc = "cu_find",
                                  !.referralId = IF code = NoCode THEN Nil
                                                 ELSE FindByReferralCode(code)]]
    /\ UNCHANGED <<users, referral, refresh_token, referral_code, redis,
                   now, nextId, nextTok, faults>>

\* variant: the pre-check tests err != nil, so a registered email passes
createUser_FindByEmail_inverted(r) ==
    /\ req[r].pc = "cu_find"
    /\ IF FindByEmail(req[r].email) = {}
         THEN req' = [req EXCEPT ![r].pc = "done", ![r].ret = "email_in_use"]
         ELSE req' = [req EXCEPT ![r].pc = "cu_create", ![r].tx = "open",
                                 ![r].passwordHash = Hash(req[r].password)]
    /\ UNCHANGED <<users, referral, refresh_token, referral_code, redis,
                   now, nextId, nextTok, faults, nreq>>

\* createUser: the FindByEmail pre-check, the password hash and BeginTxx
createUser_FindByEmail(r) ==
    /\ req[r].pc = "cu_find"
    /\ IF FindByEmail(req[r].email) # {}
         THEN req' = [req EXCEPT ![r].pc = "done", ![r].ret = "email_in_use"]
         ELSE req' = [req EXCEPT ![r].pc = "cu_create", ![r].tx = "open",
                                 ![r].passwordHash = Hash(req[r].password)]
    /\ UNCHANGED <<users, referral, refresh_token, referral_code, redis,
                   now, nextId, nextTok, faults, nreq>>

\* variant: User.Create runs on the pool instead of the transaction, so the
\* row is committed by the statement itself
createUser_UserCreate_autocommit(r) ==
    /\ req[r].pc = "cu_create"
    /\ nextId' = nextId + 1
    /\ \/ /\ CanFault
          /\ faults' = faults + 1
          /\ req' = [req EXCEPT ![r] = createUser_defer(
                         [@ EXCEPT !.newId = nextId, !.err = "store_error",
                                   !.ret = "store_error", !.fault = TRUE])]
          /\ UNCHANGED users
       \/ /\ users' = users \cup UserCreate(req[r].email,
                       [user_id |-> nextId, email |-> req[r].email,
                        password_hash |-> req[r].passwordHash])
          /\ req' = [req EXCEPT ![r].newId = nextId,
                 ![r].pc = IF req[r].referralId # Nil THEN "cu_referral"
                           ELSE "cu_commit"]
          /\ UNCHANGED faults
    /\ UNCHANGED <<referral, refresh_token, referral_code, redis,
                   now, nextTok, nreq>>

\* createUser: uuid.New() and User.Create inside the transaction
createUser_UserCreate(r) ==
    /\ req[r].pc = "cu_create"
    /\ nextId' = nextId + 1
    /\ \/ /\ CanFault
          /\ faults' = faults + 1
          /\ req' = [req EXCEPT ![r] = createUser_defer(
                         [@ EXCEPT !.newId = nextId, !.err = "store_error",
                                   !.ret = "store_error", !.fault = TRUE])]
       \/ /\ ~UserCreateBlocked(r, req[r].email)
          /\ req' = [req EXCEPT ![r].newId = nextId,
                 ![r].txUsers = UserCreate(req[r].email,
                       [user_id |-> nextId, email |-> req[r].email,
                        password_hash |-> req[r].passwordHash]),
                 ![r].pc = IF req[r].referralId # Nil THEN "cu_referral"
                           ELSE "cu_commit"]
          /\ UNCHANGED faults
    /\ UNCHANGED <<users, referral, refresh_token, referral_code, redis,
                   now, nextTok, nreq>>

\* variant: the new user's id is passed as the referrer as well
createUser_CreateReferral_self(r) ==
    /\ req[r].pc = "cu_referral"
    /\ LET row == [user_id |-> req[r].newId,
                   referred_by_user_id |-> req[r].newId]
       IN \/ /\ CanFault
             /\ faults' = faults + 1
             /\ req' = [req EXCEPT ![r] = createUser_defer(
                            [@ EXCEPT !.err = "store_error",
                                      !.ret = "store_error",
                                      !.fault = TRUE])]
          \/ /\ ~ReferralFKOk(users \cup req[r].txUsers, row)
             /\ req' = [req EXCEPT ![r] = createUser_defer(
                            [@ EXCEPT !.err = "store_error",
                                      !.ret = "store_error"])]
             /\ UNCHANGED faults
          \/ /\ ReferralFKOk(users \cup req[r].txUsers, row)
             /\ req' = [req EXCEPT ![r].pc = "cu_commit",
                                   ![r].txReferral = CreateReferral(row)]
             /\ UNCHANGED faults
    /\ UNCHANGED <<users, referral, refresh_token, referral_code, redis,
                   now, nextId, nextTok, nreq>>

\* createUser: Referral.CreateReferral inside the transaction
createUser_CreateReferral(r) ==
    /\ req[r].pc = "cu_referral"
    /\ LET row == [user_id |-> req[r].newId,
                   referred_by_user_id |-> req[r].referralId]
       IN \/ /\ CanFault
             /\ faults' = faults + 1
             /\ req' = [req EXCEPT ![r] = createUser_defer(
                            [@ EXCEPT !.err = "store_error",
                                      !.ret = "store_error",
                                      !.fault = TRUE])]
          \/ /\ ~ReferralFKOk(users \cup req[r].txUsers, row)
             /\ req' = [req EXCEPT ![r] = createUser_defer(
                            [@ EXCEPT !.err = "store_error",
                                      !.ret = "store_error"])]
             /\ UNCHANGED faults
          \/ /\ ReferralFKOk(users \cup req[r].txUsers, row)
             /\ req' = [req EXCEPT ![r].pc = "cu_commit",
                                   ![r].txReferral = CreateReferral(row)]
             /\ UNCHANGED faults
    /\ UNCHANGED <<users, referral, refresh_token, referral_code, redis,
                   now, nextId, nextTok, nreq>>

\* variant: the edge is upserted on referred_by_user_id, so a referrer keeps
\* only its latest edge
createUser_Commit_replace(r) ==
    /\ req[r].pc = "cu_commit"
    /\ \/ /\ CanFault
          /\ faults' = faults + 1
          /\ req' = [req EXCEPT ![r] = createUser_defer(
                         [@ EXCEPT !.tx = "aborted", !.releases = @ + 1,
                                   !.err = "store_error",
                                   !.ret = "store_error", !.fault = TRUE])]
          /\ UNCHANGED <<users, referral>>
       \/ /\ users' = users \cup req[r].txUsers
          /\ referral' = {e \in referral :
                             \A f \in req[r].txReferral :
                                 f.referred_by_user_id # e.referred_by_user_id}
                              \cup req[r].txReferral
          /\ req' = [req EXCEPT ![r].pc = "cu_session", ![r].tx = "committed",
                                ![r].txUsers = {}, ![r].txReferral = {},
                                ![r].releases = @ + 1]
          /\ UNCHANGED faults
    /\ UNCHANGED <<refresh_token, referral_code, redis, now, nextId, nextTok,
                   nreq>>

\* createUser: tx.Commit() after both writes
createUser_Commit(r) ==
    /\ req[r].pc = "cu_commit"
    /\ \/ /\ CanFault
          /\ faults' = faults + 1
          /\ req' = [req EXCEPT ![r] = createUser_defer(
                         [@ EXCEPT !.tx = "aborted", !.releases = @ + 1,
                                   !.err = "store_error",
                                   !.ret = "store_error", !.fault = TRUE])]
          /\ UNCHANGED <<users, referral>>
       \/ /\ users' = users \cup req[r].txUsers
          /\ referral' = referral \cup req[r].txReferral
          /\ req' = [req EXCEPT ![r].pc = "cu_session", ![r].tx = "committed",
                                ![r].txUsers = {}, ![r].txReferral = {},
                                ![r].releases = @ + 1]
          /\ UNCHANGED faults
    /\ UNCHANGED <<refresh_token, referral_code, redis, now, nextId, nextTok,
                   nreq>>

\* variant: a failed createSession is compensated by deleting the rows the
\* transaction committed
createUser_createSession_undo(r) ==
    /\ req[r].pc = "cu_session"
    /\ createSession(r, req[r].newId, TRUE)
    /\ users' = IF req'[r].ret # ""
                  THEN {u \in users : u.user_id # req[r].newId} ELSE users
    /\ referral' = IF req'[r].ret # ""
                     THEN {e \in referral : e.user_id # req[r].newId}
                     ELSE referral
    /\ UNCHANGED <<referral_code, redis, now, nextId, nreq>>

\* createUser: return u.createSession(ctx, user.UserId)
createUser_createSession(r) ==
    /\ req[r].pc = "cu_session"
    /\ createSession(r, req[r].newId, TRUE)
    /\ UNCHANGED <<users, referral, referral_code, redis, now, nextId, nreq>>

\* ---- UserService.SignIn -------------------------------------------------
\* variant: a wrong password revokes the sessions of the user
\* (RefreshTokenPostgres.DeleteByUserID)
SignIn_revoke(r, email, password) ==
    /\ CanStart(r)
    /\ nreq' = nreq + 1
    /\ LET a == [Arrive(r, "SignIn") EXCEPT !.email = email,
                     !.password = password,
                     !.passwordHash = Hash(password)]
           found == FindByEmail(email)
       IN IF found = {}
            THEN /\ req' = [req EXCEPT ![r] = [a EXCEPT !.pc = "done",
                                  !.ret = "user_not_found"]]
                 /\ UNCHANGED refresh_token
            ELSE LET user == CHOOSE u \in found : TRUE
                 IN IF user.password_hash # a.passwordHash
                      THEN /\ req' = [req EXCEPT ![r] = [a EXCEPT !.pc = "done",
                                       !.userId = user.user_id,
                                       !.ret = "invalid_credentials"]]
                           /\ refresh_token' = {x \in refresh_token :
                                                    x.user_id # user.user_id}
                      ELSE /\ req' = [req EXCEPT ![r] = [a EXCEPT
                                       !.pc = "si_session",
                                       !.userId = user.user_id]]
                           /\ UNCHANGED refresh_token
    /\ UNCHANGED <<users, referral, referral_code, redis,
                   now, nextId, nextTok, faults>>

SignIn(r, email, password) ==
    /\ CanStart(r)
    /\ nreq' = nreq + 1
    /\ LET a == [Arrive(r, "SignIn") EXCEPT !.email = email,
                     !.password = password,
                     !.passwordHash = Hash(password)]
           found == FindByEmail(email)
       IN IF found = {}
            THEN req' = [req EXCEPT ![r] = [a EXCEPT !.pc = "done",
                                  !.ret = "user_not_found"]]
            ELSE LET user == CHOOSE u \in found : TRUE
                 IN IF user.password_hash # a.passwordHash
                      THEN req' = [req EXCEPT ![r] = [a EXCEPT !.pc = "done",
                                       !.userId = user.user_id,
                                       !.ret = "invalid_credentials"]]
                      ELSE req' = [req EXCEPT ![r] = [a EXCEPT
                                       !.pc = "si_session",
                                       !.userId = user.user_id]]
    /\ UNCHANGED <<users, referral, refresh_token, referral_code, redis,
                   now, nextId, nextTok, faults>>

SignIn_createSession(r) ==
    /\ req[r].pc = "si_session"
    /\ createSession(r, req[r].userId, FALSE)
    /\ UNCHANGED <<users, referral, referral_code, redis, now, nextId, nreq>>

\* ---- UserService.RefreshTokens ------------------------------------------
RefreshTokens(r, refreshToken) ==
    /\ CanStart(r)
    /\ nreq' = nreq + 1
    /\ LET a == [Arrive(r, "RefreshTokens") EXCEPT !.code = refreshToken,
                     !.at = now]
           found == FindByRefreshToken(refreshToken)
       IN IF found = {}
            THEN req' = [req EXCEPT ![r] = [a EXCEPT !.pc = "done",
                                  !.ret = "token_not_found"]]
            ELSE req' = [req EXCEPT ![r] = [a EXCEPT !.pc = "rt_session",
                            !.userId = (CHOOSE x \in found : TRUE).user_id]]
    /\ UNCHANGED <<users, referral, refresh_token, referral_code, redis,
                   now, nextId, nextTok, faults>>

RefreshTokens_createSession(r) ==
    /\ req[r].pc = "rt_session"
    /\ createSession(r, req[r].userId, FALSE)
    /\ UNCHANGED <<users, referral, referral_code, redis, now, nextId, nreq>>

\* ---- ReferralService.CreateCode -----------------------------------------
\* variant: a call for a user that holds a live code extends that code to
\* the new ttl
CreateCode_extend(r, userId, ttl) ==
    /\ CanStart(r)
    /\ nreq' = nreq + 1
    /\ nextTok' = nextTok + 1
    /\ LET a == [Arrive(r, "CreateCode") EXCEPT !.userId = userId,
                     !.ttl = ttl, !.tok = nextTok, !.at = now]
           live == FindCodeByUserID(userId)
       IN IF live # {}
            THEN /\ req' = [req EXCEPT ![r] = [a EXCEPT !.pc = "done",
                                  !.ret = "code_exists"]]
                 /\ referral_code' = (referral_code \ live) \cup
                        {[x EXCEPT !.expires_at = now + ttl] : x \in live}
            ELSE /\ req' = [req EXCEPT ![r] = [a EXCEPT !.pc = "cc_store"]]
                 /\ UNCHANGED referral_code
    /\ UNCHANGED <<users, referral, refresh_token, redis,
                   now, nextId, faults>>

\* generateReferralCode, then the FindCodeByUserID gate
CreateCode(r, userId, ttl) ==
    /\ CanStart(r)
    /\ nreq' = nreq + 1
    /\ nextTok' = nextTok + 1
    /\ LET a == [Arrive(r, "CreateCode") EXCEPT !.userId = userId,
                     !.ttl = ttl, !.tok = nextTok, !.at = now]
       IN IF FindCodeByUserID(userId) # {}
            THEN req' = [req EXCEPT ![r] = [a EXCEPT !.pc = "done",
                                  !.ret = "code_exists"]]
            ELSE req' = [req EXCEPT ![r] = [a EXCEPT !.pc = "cc_store"]]
    /\ UNCHANGED <<users, referral, refresh_token, referral_code, redis,
                   now, nextId, faults>>

\* variant: the error of the store write is not checked and the cache write
\* follows
CreateCode_CreateReferralCode_unchecked(r) ==
    /\ req[r].pc = "cc_store"
    /\ \/ /\ CanFault
          /\ faults' = faults + 1
          /\ req' = [req EXCEPT ![r].pc = "cc_cache", ![r].fault = TRUE]
          /\ UNCHANGED referral_code
       \/ /\ referral_code' = CreateReferralCode(referral_code,
                 [user_id |-> req[r].userId, code |-> req[r].tok,
                  expires_at |-> now + req[r].ttl])
          /\ req' = [req EXCEPT ![r].pc = "cc_cache",
                                ![r].expiresAt = now + req[r].ttl]
          /\ UNCHANGED faults
    /\ UNCHANGED <<users, referral, refresh_token, redis, now, nextId,
                   nextTok, nreq>>

\* r.repos.Referral.CreateReferralCode
CreateCode_CreateReferralCode(r) ==
    /\ req[r].pc = "cc_store"
    /\ \/ /\ CanFault
          /\ faults' = faults + 1
          /\ req' = [req EXCEPT ![r].pc = "done", ![r].ret = "store_error",
                                ![r].fault = TRUE]
          /\ UNCHANGED referral_code
       \/ /\ referral_code' = CreateReferralCode(referral_code,
                 [user_id |-> req[r].userId, code |-> req[r].tok,
                  expires_at |-> now + req[r].ttl])
          /\ req' = [req EXCEPT ![r].pc = "cc_cache",
                                ![r].expiresAt = now + req[r].ttl]
          /\ UNCHANGED faults
    /\ UNCHANGED <<users, referral, refresh_token, redis, now, nextId,
                   nextTok, nreq>>

\* variant: a failed cache write is compensated by deleting the stored code
CreateCode_RedisCreate_undo(r) ==
    /\ req[r].pc = "cc_cache"
    /\ \/ /\ CanFault
          /\ faults' = faults + 1
          /\ req' = [req EXCEPT ![r].pc = "done", ![r].ret = "cache_error",
                                ![r].fault = TRUE]
          /\ referral_code' = {x \in referral_code : x.code # req[r].tok}
          /\ UNCHANGED redis
       \/ /\ redis' = RedisCreate(redis, req[r].tok, req[r].userId, req[r].ttl)
          /\ req' = [req EXCEPT ![r].pc = "done", ![r].out = req[r].tok,
                                ![r].cachedAt = now]
          /\ UNCHANGED <<faults, referral_code>>
    /\ UNCHANGED <<users, referral, refresh_token, now, nextId,
                   nextTok, nreq>>

\* r.redis.Referral.Create
CreateCode_RedisCreate(r) ==
    /\ req[r].pc = "cc_cache"
    /\ \/ /\ CanFault
          /\ faults' = faults + 1
          /\ req' = [req EXCEPT ![r].pc = "done", ![r].ret = "cache_error",
                                ![r].fault = TRUE]
          /\ UNCHANGED redis
       \/ /\ redis' = RedisCreate(redis, req[r].tok, req[r].userId, req[r].ttl)
          /\ req' = [req EXCEPT ![r].pc = "done", ![r].out = req[r].tok,
                                ![r].cachedAt = now]
          /\ UNCHANGED faults
    /\ UNCHANGED <<users, referral, refresh_token, referral_code, now, nextId,
                   nextTok, nreq>>

\* ---- ReferralService.FindReferralByUserID -------------------------------
\* the ids the query returns are handed to the caller
ReferralService_FindReferralByUserID(r, id) ==
    /\ CanStart(r)
    /\ nreq' = nreq + 1
    /\ req' = [req EXCEPT ![r] = [Arrive(r, "FindReferralByUserID") EXCEPT
                   !.pc = "done", !.userId = id, !.at = now,
                   !.found = FindReferralByUserID(id)]]
    /\ UNCHANGED <<users, referral, refresh_token, referral_code, redis,
                   now, nextId, nextTok, faults>>

\* ---- ReferralService.SendEmail ------------------------------------------
\* the user's live codes are read and mailed to the recipient; the mail
\* transport may fail
SendEmail(r, userId, email) ==
    /\ CanStart(r)
    /\ nreq' = nreq + 1
    /\ LET a == [Arrive(r, "SendEmail") EXCEPT !.pc = "done",
                     !.userId = userId, !.email = email, !.at = now,
                     !.found = {x.code : x \in FindCodeByUserID(userId)}]
       IN \/ /\ CanFault
             /\ faults' = faults + 1
             /\ req' = [req EXCEPT ![r] = [a EXCEPT !.ret = "mail_error",
                                                   !.fault = TRUE]]
          \/ /\ req' = [req EXCEPT ![r] = a]
             /\ UNCHANGED faults
    /\ UNCHANGED <<users, referral, refresh_token, referral_code, redis,
                   now, nextId, nextTok>>

\* ---- specification ------------------------------------------------------
\* values a caller can present: the referral codes generated so far, the
\* refresh tokens stored so far, and one value the generator never issues
\* (every request draws at most one value and at most three requests
\* precede the run, so it stays below UnknownToken)
UnknownToken == MaxReqs + 4
KnownCodes == {req[q].tok : q \in {x \in Reqs : req[x].op = "CreateCode"}}
                  \cup {UnknownToken}
KnownTokens == {x.refresh_token : x \in refresh_token} \cup {UnknownToken}

\* emails and passwords are opaque strings: the first use of a new one is
\* named by the next unused value
Started == {x \in Reqs : req[x].op \in {"SignUp", "SignIn"}}
NextUnused(used) == IF used = {} THEN 1
                    ELSE (CHOOSE m \in used : \A x \in used : x <= m) + 1
EmailInputs == {e \in Emails : e <= NextUnused({req[x].email : x \in Started})}
PasswordInputs ==
    {p \in Passwords : p <= NextUnused({req[x].password : x \in Started})}

Next ==
    \/ Tick
    \/ \E r \in Reqs, e \in EmailInputs, p \in PasswordInputs, c \in {NoCode} \cup KnownCodes :
           SignUp(r, e, p, c)
    \/ \E r \in Reqs : createUser_FindByEmail(r)
    \/ \E r \in Reqs : createUser_UserCreate(r)
    \/ \E r \in Reqs : createUser_CreateReferral(r)
    \/ \E r \in Reqs : createUser_Commit(r)
    \/ \E r \in Reqs : createUser_createSession(r)
    \/ \E r \in Reqs, e \in EmailInputs, p \in PasswordInputs : SignIn(r, e, p)
    \/ \E r \in Reqs : SignIn_createSession(r)
    \/ \E r \in Reqs, t \in KnownTokens : RefreshTokens(r, t)
    \/ \E r \in Reqs : RefreshTokens_createSession(r)
    \/ \E r \in Reqs, u \in UserIds(users), t \in TTLs : CreateCode(r, u, t)
    \/ \E r \in Reqs : CreateCode_CreateReferralCode(r)
    \/ \E r \in Reqs : CreateCode_RedisCreate(r)
    \/ \E r \in Reqs, u \in UserIds(users) : ReferralService_FindReferralByUserID(r, u)
    \/ \E r \in Reqs, u \in UserIds(users), e \in EmailInputs : SendEmail(r, u, e)

Spec == Init /\ [][Next]_vars


\* ---- vocabulary of the properties --------------------------------------
\* the user a session request creates its session for
SessionUser(r) == IF req[r].op = "SignUp" THEN req[r].newId ELSE req[r].userId

\* the caller of r received an access/refresh token pair
GotTokens(r) == Done(r) /\ req[r].ret = "" /\ req[r].tokens # NoTokens

\* the refresh token returned by r is a row of the token store
Stored(r) == [user_id |-> SessionUser(r),
              refresh_token |-> req[r].tokens.RefreshToken,
              expires_at |-> req[r].expiresAt] \in refresh_token

\* request r enters the service with operation op in this step
Arrives(r, op) == req[r].pc = "idle" /\ req'[r].op = op

\* CreateCode r returned a code to its caller
GotCode(r) == Done(r) /\ req[r].op = "CreateCode" /\ req[r].ret = ""
                  /\ req[r].out # NoCode

\* ---- C1 -----------------------------------------------------------------
C1_Step ==
    \A p, q \in Reqs :
        ( /\ req[p].op = "SignUp" /\ GotTokens(p)
          /\ Arrives(q, "SignIn")
          /\ req'[q].email = req[p].email
          /\ req'[q].password = req[p].password )
        => /\ req'[q].pc = "si_session"
           /\ req'[q].userId = req[p].newId

C1_Inv ==
    \A p, q \in Reqs :
        ( /\ req[p].op = "SignUp" /\ GotTokens(p)
          /\ req[q].op = "SignIn" /\ Done(q) /\ ~req[q].fault
          /\ req[q].email = req[p].email
          /\ req[q].password = req[p].password
          /\ req[q].userId = req[p].newId )
        => /\ GotTokens(q)
           /\ req[q].tokens.RefreshToken # req[p].tokens.RefreshToken
           /\ req[q].tokens # req[p].tokens
           /\ Stored(p) /\ Stored(q)
           /\ SessionUser(p) = SessionUser(q)

\* C1: a SignIn that arrives after a successful SignUp with the same email
\* and password finds the user and passes the password check; unless a
\* store or issuer failure hits it, it returns tokens, its refresh token
\* differs from the sign-up's, and both are stored for the same user.
C1_SignUpThenSignIn == [][C1_Step]_vars /\ []C1_Inv

C1_Witness ==
    \E p, q \in Reqs :
        /\ req[p].op = "SignUp" /\ GotTokens(p)
        /\ req[q].op = "SignIn" /\ GotTokens(q)
        /\ req[q].email = req[p].email /\ req[q].password = req[p].password
        /\ req[q].userId = req[p].newId
        /\ Stored(p) /\ Stored(q)

\* ---- C2 -----------------------------------------------------------------
\* the sign-ups of email e that passed the FindByEmail pre-check
PassedPreCheck(e) ==
    {r \in Reqs : req[r].op = "SignUp" /\ req[r].email = e /\ req[r].tx # "none"}

\* C2: of the sign-ups of one email, at most one ever returns tokens; and
\* when the sign-ups that passed the pre-check have all returned and none
\* was hit by a store or issuer failure, exactly one of them returned tokens.
C2_OneSignUpWins ==
    \A e \in Emails :
        /\ Cardinality({r \in Reqs : req[r].op = "SignUp" /\ req[r].email = e
                                       /\ GotTokens(r)}) <= 1
        /\ ( /\ PassedPreCheck(e) # {}
             /\ \A r \in PassedPreCheck(e) : Done(r) /\ ~req[r].fault )
           => Cardinality({r \in PassedPreCheck(e) : GotTokens(r)}) = 1

C2_Witness ==
    \E p, q \in Reqs :
        /\ p # q
        /\ {p, q} \subseteq PassedPreCheck(req[p].email)
        /\ Done(p) /\ Done(q) /\ ~req[p].fault /\ ~req[q].fault
        /\ GotTokens(p) /\ ~GotTokens(q)

\* ---- C3 -----------------------------------------------------------------
Registered(e) == FindByEmail(e) # {}

\* the pre-check step of r on a registered email
C3_PreCheck ==
    \A r \in Reqs :
        (req[r].pc = "cu_find" /\ req'[r] # req[r] /\ Registered(req[r].email))
        => /\ req'[r].pc = "done"
           /\ req'[r].ret = "email_in_use"
           /\ req'[r].tokens = NoTokens
           /\ users' = users /\ referral' = referral

C3_Arrival ==
    \A r \in Reqs :
        (Arrives(r, "SignUp") /\ Registered(req'[r].email))
        => /\ users' = users /\ referral' = referral
           /\ IF req'[r].code # NoCode /\ ~CacheHit(req'[r].code)
                THEN req'[r].pc = "done" /\ req'[r].ret = "referral_not_found"
                ELSE req'[r].pc = "cu_find"

UserVisible(id) == id \in UserIds(users)
EdgeVisible(id) == \E e \in referral : e.user_id = id

\* C4: for every createUser call that generated an id: its user row and its
\* edge row are visible only once the transaction has committed; a failed
\* write or commit leaves neither; the transaction never commits after a
\* failed write; and with a referral the two rows appear together or not
\* at all.
C4_AtomicCreateUser ==
    \A r \in Reqs :
        (req[r].op = "SignUp" /\ req[r].newId # Nil)
        => LET id == req[r].newId
           IN /\ req[r].tx # "committed" => ~UserVisible(id) /\ ~EdgeVisible(id)
              /\ req[r].err = "store_error"
                   => /\ req[r].tx # "committed"
                      /\ ~UserVisible(id) /\ ~EdgeVisible(id)
              /\ req[r].referralId # Nil => (UserVisible(id) <=> EdgeVisible(id))
              /\ req[r].referralId = Nil => ~EdgeVisible(id)

\* a sign-up with a referral whose two writes succeeded and whose commit failed
C4_Witness ==
    \E r \in Reqs :
        /\ req[r].op = "SignUp" /\ Done(r)
        /\ req[r].referralId # Nil
        /\ req[r].tx = "aborted"
        /\ ~UserVisible(req[r].newId) /\ ~EdgeVisible(req[r].newId)

\* ---- C5 -----------------------------------------------------------------
RowsOf(token) == {x \in refresh_token : x.refresh_token = token}

\* C5: a RefreshTokens call whose token has no row, or only a row that had
\* expired when the call looked it up, has failed with token-not-found,
\* returned no tokens and generated none; and every row of the token store
\* was written by a call that returned its token.
C5_RefreshNotFound ==
    /\ \A q \in Reqs :
           ( /\ req[q].op = "RefreshTokens"
             /\ \A x \in RowsOf(req[q].code) : x.expires_at <= req[q].at )
           => /\ Done(q)
              /\ req[q].ret = "token_not_found"
              /\ req[q].tokens = NoTokens
              /\ req[q].tok = 0
    /\ \A x \in refresh_token :
           \E p \in Reqs : /\ GotTokens(p)
                           /\ req[p].tokens.RefreshToken = x.refresh_token
                           /\ SessionUser(p) = x.user_id

\* an issued token presented after its expiry
C5_Witness ==
    \E q \in Reqs :
        /\ req[q].op = "RefreshTokens" /\ Done(q)
        /\ RowsOf(req[q].code) # {}
        /\ \A x \in RowsOf(req[q].code) : x.expires_at <= req[q].at
        /\ req[q].ret = "token_not_found"

\* ---- C6 -----------------------------------------------------------------
\* C6: the row of every refresh token returned to a caller stays in the
\* store unchanged; a RefreshTokens call that presents such a token before
\* its expires_at finds it, and unless a store or issuer failure hits the
\* call it returns a new session, with another refresh token, for the
\* token's user.
C6_RefreshKeepsOldToken ==
    /\ \A p \in Reqs : GotTokens(p) => Stored(p)
    /\ \A p, q \in Reqs :
           ( /\ GotTokens(p)
             /\ req[q].op = "RefreshTokens"
             /\ req[q].code = req[p].tokens.RefreshToken
             /\ req[q].at < req[p].expiresAt )
           => /\ req[q].ret # "token_not_found"
              /\ req[q].userId = SessionUser(p)
              /\ (Done(q) /\ ~req[q].fault)
                   => /\ GotTokens(q)
                      /\ req[q].tokens.RefreshToken # req[q].code
                      /\ Stored(q)

\* the same token used for two successful refreshes
C6_Witness ==
    \E p, q1, q2 \in Reqs :
        /\ q1 # q2
        /\ GotTokens(p)
        /\ req[q1].op = "RefreshTokens" /\ GotTokens(q1)
        /\ req[q2].op = "RefreshTokens" /\ GotTokens(q2)
        /\ req[q1].code = req[p].tokens.RefreshToken
        /\ req[q2].code = req[p].tokens.RefreshToken
        /\ Stored(p)

\* ---- C7 -----------------------------------------------------------------
\* C7: a SignIn rejected for a wrong password returns the same error as a
\* SignIn rejected because the email has no user row.
C7_SameSignInError ==
    \A p, q \in Reqs :
        ( /\ req[p].op = "SignIn" /\ Done(p) /\ req[p].ret # ""
          /\ req[q].op = "SignIn" /\ Done(q) /\ req[q].ret # ""
          /\ ~req[p].fault /\ ~req[q].fault
          /\ req[p].userId = Nil        \* no user row for the email
          /\ req[q].userId # Nil )      \* user found, password hash differs
        => req[p].ret = req[q].ret

\* ---- C8 -----------------------------------------------------------------
CodesOf(u) == {p \in Reqs : req[p].op = "CreateCode" /\ req[p].userId = u}

C8_Step ==
    \A q \in Reqs :
        Arrives(q, "CreateCode")
        => LET u == req'[q].userId
           IN /\ (\E p \in CodesOf(u) : GotCode(p) /\ now < req[p].expiresAt)
                   => /\ req'[q].pc = "done"
                      /\ req'[q].ret = "code_exists"
                      /\ req'[q].out = NoCode
              /\ (\A p \in CodesOf(u) : Done(p) /\ req[p].expiresAt <= now)
                   => req'[q].pc = "cc_store"

C8_Inv ==
    \A q \in Reqs :
        ( /\ req[q].op = "CreateCode" /\ Done(q)
          /\ ~req[q].fault /\ req[q].ret # "code_exists" )
        => /\ GotCode(q)
           /\ req[q].out = req[q].tok
           /\ \A p \in Reqs \ {q} : req[p].op = "CreateCode"
                                      => req[p].out # req[q].out

\* C8: a CreateCode that arrives while a code returned earlier to the same
\* user has not reached its expiry fails with code-exists; one that arrives
\* when the user's earlier calls have returned and their codes have expired
\* passes the gate, and unless a store or cache failure hits it returns a
\* code no other call returned.
C8_CreateCodeTwice == [][C8_Step]_vars /\ []C8_Inv

\* a second code issued after the first one's ttl elapsed
C8_Witness ==
    \E p, q \in Reqs :
        /\ p # q
        /\ GotCode(p) /\ GotCode(q)
        /\ req[p].userId = req[q].userId
        /\ req[p].ttl > 0
        /\ req[p].expiresAt <= req[q].at
        /\ req[p].out # req[q].out

\* ---- C9 -----------------------------------------------------------------
LiveCodes(u) == {x \in referral_code : x.user_id = u /\ x.expires_at > now}

\* C9: the referral_code store holds at most one non-expired row per user.
C9_OneLiveCode ==
    \A u \in UserIds(users) : Cardinality(LiveCodes(u)) <= 1

\* ---- C10 ----------------------------------------------------------------
\* C10: while the ttl of a returned code has not elapsed since it was
\* cached (always, when the ttl is not positive), the cache resolves the
\* code to the user it was issued to.
C10_CodeRoundTrip ==
    \A p \in Reqs :
        (GotCode(p) /\ (req[p].ttl <= 0 \/ now < req[p].cachedAt + req[p].ttl))
        => /\ CacheHit(req[p].out)
           /\ FindByReferralCode(req[p].out) = req[p].userId

\* a code still resolved one tick after it was cached, with a later request
\* of another caller in between
C10_Witness ==
    \E p, q \in Reqs :
        /\ GotCode(p) /\ req[p].ttl > 0
        /\ now > req[p].cachedAt /\ now < req[p].cachedAt + req[p].ttl
        /\ q > p /\ q > 0 /\ Done(q) /\ req[q].op # "CreateCode"
        /\ CacheHit(req[p].out)
        /\ FindByReferralCode(req[p].out) = req[p].userId

\* ---- C11 ----------------------------------------------------------------
\* the users that were issued referral code c
IssuerOf(c) == {req[p].userId : p \in {x \in Reqs : req[x].op = "CreateCode"
                                                    /\ req[x].tok = c}}

\* the edge row createUser writes for request r
Edge(r) == [user_id |-> req[r].newId, referred_by_user_id |-> req[r].referralId]

\* the commit of sign-up r takes effect in this step
Commits(r) == req[r].pc = "cu_commit" /\ req'[r].pc = "cu_session"

C11_Step ==
    /\ referral \subseteq referral'
    /\ \A e \in referral' \ referral :
           \E r \in Reqs : Commits(r) /\ req[r].referralId # Nil /\ e = Edge(r)
    /\ \A r \in Reqs :
           (Commits(r) /\ req[r].referralId # Nil)
           => /\ referral' = referral \cup {Edge(r)}
              /\ \A e \in referral : e.user_id # req[r].newId
              /\ req[r].newId \in UserIds(users')
    /\ \A r \in Reqs :
           (Commits(r) /\ req[r].referralId = Nil) => referral' = referral

C11_Inv ==
    \A r \in Reqs :
        (req[r].op = "SignUp" /\ GotTokens(r) /\ req[r].code # NoCode)
        => /\ IssuerOf(req[r].code) = {req[r].referralId}
           /\ {e \in referral : e.user_id = req[r].newId} = {Edge(r)}
           /\ req[r].referralId \in UserIds(users)

\* C11: a SignUp that returned tokens and whose referral code the cache
\* resolved has exactly one edge row, from the new user to the issuer of the
\* code; its commit adds that one row and nothing else, and no step removes
\* or changes an edge row or adds one outside such a commit.
C11_OneEdge == [][C11_Step]_vars /\ []C11_Inv

C11_Witness ==
    \E r \in Reqs :
        /\ r > 0
        /\ req[r].op = "SignUp" /\ GotTokens(r) /\ req[r].code # NoCode
        /\ Edge(r) \in referral
        /\ IssuerOf(req[r].code) = {req[r].referralId}

\* ---- C12 ----------------------------------------------------------------
C12_Step ==
    \A r \in Reqs :
        ( /\ Arrives(r, "SignUp")
          /\ req'[r].code # NoCode
          /\ ~CacheHit(req'[r].code) )
        => /\ req'[r].pc = "done"
           /\ req'[r].ret = "referral_not_found"
           /\ req'[r].tokens = NoTokens
           /\ users' = users /\ referral' = referral
           /\ refresh_token' = refresh_token

C12_Inv ==
    \A r \in Reqs :
        req[r].ret = "referral_not_found"
        => /\ Done(r) /\ req[r].op = "SignUp" /\ req[r].code # NoCode
           /\ req[r].tx = "none" /\ req[r].newId = Nil
           /\ req[r].tok = 0 /\ req[r].tokens = NoTokens

\* C12: a SignUp whose non-empty referral code the cache does not resolve
\* returns referral-not-found in its first step, with users, referral and
\* refresh_token untouched; such a call never begins a transaction, never
\* generates a user id or a token and returns no tokens.
C12_ReferralNotFound == [][C12_Step]_vars /\ []C12_Inv

\* the rejected sign-up used an email that has no user row
C12_Witness ==
    \E r \in Reqs :
        /\ req[r].op = "SignUp" /\ Done(r)
        /\ req[r].ret = "referral_not_found"
        /\ FindByEmail(req[r].email) = {}

\* ---- C13 ----------------------------------------------------------------
\* request r returns from createSession in this step
Returns(r) == req[r].pc \in {"cu_session", "si_session", "rt_session"}
                  /\ req'[r].pc = "done"

SessionErrors == {"jwt_error", "token_error", "store_error"}

C13_Step ==
    \A r \in Reqs :
        Returns(r)
        => \/ /\ req'[r].ret \in SessionErrors
              /\ req'[r].tokens = NoTokens
              /\ refresh_token' = refresh_token
           \/ /\ req'[r].ret = ""
              /\ req'[r].tokens.AccessToken # <<>>
              /\ req'[r].tokens.RefreshToken # 0
              /\ [user_id |-> SessionUser(r),
                  refresh_token |-> req'[r].tokens.RefreshToken,
                  expires_at |-> now + RefreshTokenTTL] \in refresh_token'

C13_Inv ==
    \A r \in Reqs :
        /\ (Done(r) /\ req[r].ret # "") => req[r].tokens = NoTokens
        /\ req[r].tokens # NoTokens
             => /\ GotTokens(r)
                /\ req[r].op \in {"SignUp", "SignIn", "RefreshTokens"}
                /\ \E x \in refresh_token :
                       /\ x.user_id = SessionUser(r)
                       /\ x.refresh_token = req[r].tokens.RefreshToken

\* C13: a call returns from createSession either with an error, empty tokens
\* and the token store as it was, or with both tokens and the refresh token
\* stored for the session's user with expires_at = the time of the step +
\* RefreshTokenTTL; a call that returned an error holds no token, and every
\* refresh token a call holds has its row in the store.
C13_NoPartialSession == [][C13_Step]_vars /\ []C13_Inv

\* one call failed in createSession while another one's token is stored
C13_Witness ==
    \E p, q \in Reqs :
        /\ Done(p) /\ req[p].ret \in SessionErrors /\ req[p].fault
        /\ req[p].tx \in {"none", "committed"}
        /\ req[p].tokens = NoTokens
        /\ GotTokens(q) /\ Stored(q) /\ q # 0

\* ---- C14 ----------------------------------------------------------------
\* the referral_code row CreateCode r stored
CodeRow(r) == [user_id |-> req[r].userId, code |-> req[r].tok,
               expires_at |-> req[r].expiresAt]

IssuedAt(r) == req[r].expiresAt - RefreshTokenTTL

\* C15: the access token returned to a caller verifies to the user the
\* session was created for while less than AccessTokenTTL has passed since
\* it was issued, and is rejected as expired from then on.
C15_AccessToken ==
    \A r \in Reqs :
        GotTokens(r)
        => LET v == VerifyAccessToken(req[r].tokens.AccessToken)
           IN IF now < IssuedAt(r) + AccessTokenTTL
                THEN v.err = "" /\ UuidParse(v.subject) = SessionUser(r)
                ELSE v.err = "expired"

\* an expired access token whose session's refresh token is still valid,
\* beside a valid access token of a later session
C15_Witness ==
    \E p, q \in Reqs :
        /\ GotTokens(p) /\ GotTokens(q)
        /\ VerifyAccessToken(req[p].tokens.AccessToken).err = "expired"
        /\ FindByRefreshToken(req[p].tokens.RefreshToken) # {}
        /\ VerifyAccessToken(req[q].tokens.AccessToken).err = ""
        /\ UuidParse(VerifyAccessToken(req[q].tokens.AccessToken).subject)
               = SessionUser(q)

\* ---- C16 ----------------------------------------------------------------
\* C16: Commit or Rollback is invoked only on a transaction that is still
\* open, one call at a time, and a createUser call that began a transaction
\* returns with exactly one such call made.
C16_ReleasedOnce ==
    [][ \A r \in Reqs :
            /\ req'[r].releases # req[r].releases
                 => /\ req[r].tx = "open"
                    /\ req'[r].releases = req[r].releases + 1
            /\ (~Done(r) /\ req'[r].pc = "done" /\ req'[r].tx # "none")
                 => req'[r].releases = 1 ]_vars

\* ---- C17 ----------------------------------------------------------------
\* the non-expired rows of the referral_code table that hold code c
StoredLive(c) == {x \in referral_code : x.code = c /\ x.expires_at > now}

C17_Step ==
    \A r \in Reqs :
        ( /\ Arrives(r, "SignUp")
          /\ StoredLive(req'[r].code) # {}
          /\ ~CacheHit(req'[r].code) )
        => /\ req'[r].pc = "done"
           /\ req'[r].ret = "referral_not_found"
           /\ req'[r].referralId = Nil
           /\ users' = users /\ referral' = referral

\* C17: a SignUp with a code that has a non-expired row in referral_code
\* but no cache entry ends at once with referral-not-found, without taking
\* the issuer from the stored row; it creates no user, and no edge ever
\* names a user whose codes were never cached.
C17_MissNotRetried ==
    [][C17_Step]_vars
        /\ [](\A e \in referral :
                 \E p \in Reqs : GotCode(p) /\ req[p].userId = e.referred_by_user_id)

\* the code was stored by a CreateCode whose cache write failed
C17_Witness ==
    \E p, r \in Reqs :
        /\ req[p].op = "CreateCode" /\ req[p].ret = "cache_error"
        /\ req[r].op = "SignUp" /\ Done(r) /\ req[r].code = req[p].tok
        /\ StoredLive(req[r].code) # {}
        /\ req[r].ret = "referral_not_found"
        /\ FindByEmail(req[r].email) = {}

\* ---- C18 ----------------------------------------------------------------
\* C18: a SignUp that presents a returned code once the ttl given to its
\* CreateCode has elapsed since the code was cached ends with
\* referral-not-found, and so creates no edge naming the issuer.
C18_CodeExpires ==
    [][ \A p, r \in Reqs :
            ( /\ GotCode(p)
              /\ Arrives(r, "SignUp")
              /\ req'[r].code = req[p].out
              /\ now >= req[p].cachedAt + req[p].ttl )
            => /\ req'[r].pc = "done"
               /\ req'[r].ret = "referral_not_found"
               /\ req'[r].referralId = Nil ]_vars

\* ---- C19 ----------------------------------------------------------------
C19_Step ==
    /\ refresh_token \subseteq refresh_token'
    /\ \A r \in Reqs :
           (Returns(r) /\ req'[r].ret = "")
           => \E row \in refresh_token' \ refresh_token :
                 /\ refresh_token' = refresh_token \cup {row}
                 /\ row.user_id = SessionUser(r)
                 /\ row.refresh_token = req'[r].tokens.RefreshToken
                 /\ \A x \in refresh_token : x.refresh_token # row.refresh_token
    /\ refresh_token' # refresh_token
         => \E r \in Reqs : Returns(r) /\ req'[r].ret = ""

\* C19: every step keeps each row of refresh_token as it is; the step in
\* which a SignUp, SignIn or RefreshTokens call returns its tokens adds
\* exactly one row, with a new token value and the user of the session, and
\* no other step adds a row.
C19_RowsAdditive == [][C19_Step]_vars

\* two sessions of one user beside a session of another user
C19_Witness ==
    \E x, y, z \in refresh_token :
        /\ x # y
        /\ x.user_id = y.user_id
        /\ z.user_id # x.user_id
        /\ x.expires_at # y.expires_at

\* ---- C20 ----------------------------------------------------------------
\* C20: the users table holds at most one row per email.
C20_EmailUnique ==
    \A u, v \in users : u.email = v.email => u = v

\* two sign-ups of one email both passed the pre-check and both committed
\* their transactions; one row holds the email
C20_Witness ==
    \E p, q \in Reqs :
        /\ p # q
        /\ req[p].op = "SignUp" /\ req[q].op = "SignUp"
        /\ req[p].email = req[q].email
        /\ req[p].tx = "committed" /\ req[q].tx = "committed"
        /\ Cardinality(FindByEmail(req[p].email)) = 1
        /\ req[q].newId \notin UserIds(users)

\* ---- C21 ----------------------------------------------------------------
C21_Step ==
    \A e \in referral :
        /\ e \in referral'
        /\ \A f \in referral' : f.user_id = e.user_id => f = e

C21_Inv ==
    \A e, f \in referral : e.user_id = f.user_id => e = f

\* C21: the referral table holds at most one edge per referred user, and
\* every step keeps each edge: the user's edge after the step is the same
\* row, with the same referred_by_user_id.
C21_EdgeStable == [][C21_Step]_vars /\ []C21_Inv

\* an edge that was there before the run, beside a later edge of the same
\* referrer
C21_Witness ==
    \E r \in Reqs :
        /\ r > 0 /\ req[r].op = "SignUp" /\ req[r].tx = "committed"
        /\ req[r].referralId = SeedEdge.referred_by_user_id
        /\ SeedEdge \in referral
        /\ Edge(r) \in referral
        /\ Edge(r) # SeedEdge

\* ---- C22 ----------------------------------------------------------------
\* C22: every step keeps each row of users: the row is still there, and it
\* is the only row with its id and the only row with its email.
C22_UserImmutable ==
    [][ \A u \in users :
            /\ u \in users'
            /\ \A v \in users' :
                   (v.user_id = u.user_id \/ v.email = u.email) => v = u ]_vars

\* the user's row after a rejected sign-up with its email and a SendEmail,
\* a CreateCode, a SignIn or a RefreshTokens call for it
C22_Witness ==
    \E p, q \in Reqs :
        /\ p > 0 /\ q > 0 /\ p # q
        /\ req[p].op = "SignUp" /\ Done(p) /\ req[p].email = SeedUser.email
        /\ req[p].password # 1
        /\ req[q].op \in {"SendEmail", "CreateCode", "SignIn", "RefreshTokens"}
        /\ Done(q) /\ req[q].userId = SeedUser.user_id
        /\ SeedUser \in users

\* ---- C23 ----------------------------------------------------------------
\* the users whose committed sign-up named u as referrer
ReferredBy(u) ==
    {req[p].newId : p \in {x \in Reqs : /\ req[x].op = "SignUp"
                                         /\ req[x].tx = "committed"
                                         /\ req[x].referralId = u}}

C23_Step ==
    \A r \in Reqs :
        Arrives(r, "FindReferralByUserID")
        => LET u == req'[r].userId
               result == req'[r].found
           IN /\ req'[r].pc = "done" /\ req'[r].ret = ""
              /\ \A e \in referral :
                     e.referred_by_user_id = u <=> e.user_id \in result
              /\ \A id \in result :
                     [user_id |-> id, referred_by_user_id |-> u] \in referral
              /\ result = ReferredBy(u)
              /\ UNCHANGED <<users, referral, refresh_token, referral_code,
                             redis>>

\* C23: a FindReferralByUserID(u) call returns the user ids of exactly the
\* edges whose referred_by_user_id is u, which are the users whose committed
\* sign-up named u as referrer, and leaves the four tables and the cache as
\* they were.
C23_FindReferrals == [][C23_Step]_vars

\* a call that returned two referred users, one of them signed up in the run
C23_Witness ==
    \E r \in Reqs :
        /\ req[r].op = "FindReferralByUserID" /\ Done(r)
        /\ Cardinality(req[r].found) = 2
        /\ req[r].found \subseteq UserIds(users) \ {req[r].userId}
        /\ \E p \in Reqs : p > 0 /\ req[p].op = "SignUp"
                              /\ req[p].newId \in req[r].found

\* ---- C24 ----------------------------------------------------------------
\* C24: every cache entry code -> u has a referral_code row (u, code),
\* written by the CreateCode call that generated the code.
C24_CacheBehindStore ==
    \A e \in redis :
        /\ \E x \in referral_code : /\ x.code = e.key
                                     /\ x.user_id = UuidParse(e.value)
        /\ \E p \in Reqs : /\ req[p].op = "CreateCode"
                           /\ req[p].tok = e.key
                           /\ req[p].userId = UuidParse(e.value)
                           /\ CodeRow(p) \in referral_code

\* a cached code with its row, beside a CreateCode whose store write failed
\* and whose code is in neither
C24_Witness ==
    \E p, q \in Reqs :
        /\ q > 0
        /\ GotCode(p) /\ CacheHit(req[p].out) /\ CodeRow(p) \in referral_code
        /\ req[q].op = "CreateCode" /\ Done(q) /\ req[q].ret = "store_error"
        /\ \A e \in redis : e.key # req[q].tok
        /\ \A x \in referral_code : x.code # req[q].tok

\* ---- C25 ----------------------------------------------------------------
\* the ids that occur in a user_id column outside users, or as a referrer
IdsInUse ==
    {x.user_id : x \in refresh_token} \cup {x.user_id : x \in referral_code}
        \cup {e.user_id : e \in referral}
        \cup {e.referred_by_user_id : e \in referral}

\* C25: every refresh-token row and every edge row belongs to a user that
\* has a row in users; and the id a sign-up generated, as long as it has no
\* row in users (its insert was a conflict no-op, failed, or is not yet
\* committed), occurs in no table and has received no tokens.
C25_ReferentialIntegrity ==
    /\ \A x \in refresh_token : x.user_id \in UserIds(users)
    /\ \A e \in referral : e.user_id \in UserIds(users)
    /\ \A r \in Reqs :
           ( /\ req[r].op = "SignUp" /\ req[r].newId # Nil
             /\ req[r].newId \notin UserIds(users) )
           => /\ req[r].newId \notin IdsInUse
              /\ req[r].tokens = NoTokens

\* a sign-up with a referral code that lost the race for its email: its
\* insert added nothing and its edge insert was refused
C25_Witness ==
    \E p, q \in Reqs :
        /\ p # q /\ q > 0
        /\ req[p].op = "SignUp" /\ req[q].op = "SignUp"
        /\ req[p].email = req[q].email
        /\ req[p].newId \in UserIds(users)
        /\ Done(q) /\ ~req[q].fault /\ req[q].referralId # Nil
        /\ req[q].tx = "rolledback" /\ req[q].ret = "store_error"
        /\ req[q].newId \notin UserIds(users)

\* ---- C26 ----------------------------------------------------------------
\* sign-up p committed its user row and then failed in createSession
SessionFailed(p) ==
    /\ req[p].op = "SignUp" /\ Done(p)
    /\ req[p].tx = "committed" /\ req[p].ret # ""
    /\ req[p].newId \in UserIds(users)

UserRow(p) == [user_id |-> req[p].newId, email |-> req[p].email,
               password_hash |-> req[p].passwordHash]

\* the failing createSession step of a sign-up returns no tokens and leaves
\* the committed rows in place
C26_Fail ==
    \A r \in Reqs :
        ( /\ req[r].op = "SignUp" /\ req[r].pc = "cu_session"
          /\ req'[r].pc = "done" /\ req'[r].ret # "" )
        => /\ req'[r].tokens = NoTokens
           /\ users' = users /\ referral' = referral
           /\ refresh_token' = refresh_token

C26_Kept ==
    \A p \in Reqs :
        SessionFailed(p)
        => /\ UserRow(p) \in users
           /\ req[p].referralId # Nil => Edge(p) \in referral
           /\ req[p].tokens = NoTokens

\* a sign-up of the same email that is at the pre-check after p failed is
\* turned down with email-in-use
C26_PreCheck ==
    \A p, q \in Reqs :
        ( /\ SessionFailed(p)
          /\ req[q].op = "SignUp" /\ req[q].pc = "cu_find"
          /\ req[q].email = req[p].email
          /\ req'[q] # req[q] )
        => /\ req'[q].pc = "done" /\ req'[q].ret = "email_in_use"
           /\ users' = users /\ referral' = referral

\* a sign-in with p's credentials that arrives after p failed passes the
\* password check for p's id
C26_SignIn ==
    \A p, q \in Reqs :
        ( /\ SessionFailed(p)
          /\ Arrives(q, "SignIn")
          /\ req'[q].email = req[p].email
          /\ req'[q].password = req[p].password )
        => /\ req'[q].pc = "si_session"
           /\ req'[q].userId = req[p].newId

\* a sign-up of the same email that arrives after p failed reaches the
\* pre-check, whatever referral code it carries
C26_ArrivalOriginal ==
    \A p, q \in Reqs :
        ( /\ SessionFailed(p)
          /\ Arrives(q, "SignUp")
          /\ req'[q].email = req[p].email )
        => req'[q].pc = "cu_find"

\* a sign-up of the same email that arrives after p failed reaches the
\* pre-check when it carries no code or one the cache resolves, and is
\* turned down with referral-not-found otherwise
C26_Arrival ==
    \A p, q \in Reqs :
        ( /\ SessionFailed(p)
          /\ Arrives(q, "SignUp")
          /\ req'[q].email = req[p].email )
        => IF req'[q].code = NoCode \/ CacheHit(req'[q].code)
             THEN req'[q].pc = "cu_find"
             ELSE /\ req'[q].pc = "done"
                  /\ req'[q].ret = "referral_not_found"

Rejected(q) ==
    /\ Arrives(q, "SignIn")
    /\ req'[q].pc = "done"

C27_Step ==
    \A q \in Reqs :
        Arrives(q, "SignIn")
        => LET found == {u \in users : u.email = req'[q].email}
           IN /\ Rejected(q) <=>
                     \/ found = {}
                     \/ \E u \in found :
                            u.password_hash # Hash(req'[q].password)
              /\ Rejected(q)
                 => /\ req'[q].ret \in {"user_not_found", "invalid_credentials"}
                    /\ req'[q].ret = "user_not_found" <=> found = {}
                    /\ req'[q].tokens = NoTokens /\ req'[q].tok = 0
                    /\ refresh_token' = refresh_token
                    /\ users' = users /\ referral' = referral
                    /\ referral_code' = referral_code /\ redis' = redis
                    /\ nextTok' = nextTok

\* C27: a SignIn is turned down exactly when no user has the email or the
\* stored hash differs from the hash of the password; a SignIn that is
\* turned down returns no tokens and leaves refresh_token, users, referral,
\* referral_code and the cache as they were.
C27_FailedSignIn == [][C27_Step]_vars

\* a sign-in with a wrong password for a user that holds a session
C27_Witness ==
    \E q \in Reqs :
        /\ q > 0 /\ req[q].op = "SignIn" /\ Done(q)
        /\ req[q].ret = "invalid_credentials"
        /\ \E x \in refresh_token : x.user_id = req[q].userId
        /\ req[q].tokens = NoTokens

\* ---- C28 ----------------------------------------------------------------
C28_Step ==
    \A q \in Reqs :
        Arrives(q, "CreateCode")
        => LET live == {x \in referral_code :
                           x.user_id = req'[q].userId /\ x.expires_at > now}
           IN /\ req'[q].ret = "code_exists" <=> live # {}
              /\ live # {}
                 => /\ req'[q].pc = "done" /\ req'[q].out = NoCode
                    /\ referral_code' = referral_code
                    /\ redis' = redis
                    /\ users' = users /\ referral' = referral
                    /\ refresh_token' = refresh_token
                    /\ now' = now

\* C28: a CreateCode call is turned down as soon as the user has a row of
\* referral_code with expires_at in the future; the call then returns no
\* code and leaves every row of referral_code (code and expires_at) and
\* every cache entry (key, value and expiry) as it was, and adds none.
C28_RejectedCreateCode == [][C28_Step]_vars

\* a call turned down, some time after the live code was issued and cached
C28_Witness ==
    \E p, q \in Reqs :
        /\ q > 0 /\ q # p
        /\ GotCode(p) /\ CodeRow(p) \in referral_code
        /\ req[q].op = "CreateCode" /\ Done(q)
        /\ req[q].ret = "code_exists"
        /\ req[q].userId = req[p].userId
        /\ req[q].at > req[p].at
        /\ req[q].tok # req[p].tok
        /\ \E k \in redis : k.key = req[p].tok

\* ---- C29 ----------------------------------------------------------------
\* C29: the referrer of every edge, committed or pending in a transaction,
\* is a user with a committed row in users and is not the referred user
\* of that edge.
C29_ReferrerExists ==
    /\ \A e \in referral :
           /\ e.referred_by_user_id \in UserIds(users)
           /\ e.referred_by_user_id # e.user_id
    /\ \A r \in Reqs : \A e \in req[r].txReferral :
           /\ e.referred_by_user_id \in UserIds(users)
           /\ e.referred_by_user_id # e.user_id

\* a sign-up of the run committed an edge to the issuer of the code it used
C29_Witness ==
    \E p, c \in Reqs :
        /\ p > 0 /\ req[p].op = "SignUp" /\ Done(p)
        /\ req[p].tx = "committed"
        /\ GotCode(c) /\ req[p].code = req[c].out
        /\ [user_id |-> req[p].newId,
            referred_by_user_id |-> req[c].userId] \in referral
        /\ req[c].userId \in UserIds(users)
        /\ req[c].userId # req[p].newId

====
